---- MODULE Spec2Model ----
(***************************************************************************)
(* Model of fastip/ping.go: the race of concurrent TCP probes that picks   *)
(* the fastest address of a host, together with the latency cache it       *)
(* consults and feeds.                                                     *)
(*                                                                         *)
(* Time is discrete.  One tick is 1/TicksPerMs of a millisecond.  Every    *)
(* running dial owns a stopwatch (time.Now / time.Since) and every waiting *)
(* arbiter owns a timer (time.After); Tick advances all of them together.  *)
(***************************************************************************)
EXTENDS Integers, Sequences, FiniteSets, TLC

(* ------------------------ bounds and constants ------------------------ *)

\* Longest address list handed to pingAll.
MaxIps == 2

\* Most probe workers one call may have to start: the address lists handed
\* to pingAll hold at most MaxProbes / len(pingPorts) uncached addresses.
MaxProbes == 2

\* Clock ticks per millisecond.
TicksPerMs == 2

\* FastestAddr.PingWaitTimeout, in ticks.
PingWaitTimeout == 1

\* pingTCPTimeout (the dialer's connect timeout), in ticks.
pingTCPTimeout == 2

(* ------------------------------ values --------------------------------- *)

\* The pingAll calls of the model.
Calls == {1, 2}

\* A nil pointer (*pingResult, *cacheEntry) or a channel not yet made.
Nil == [nil |-> TRUE]

\* netip.Addr: an IPv4 address, plain or in its IPv4-mapped IPv6 form
\* (::ffff:a.b.c.d).
Addr(ip, is4in6) == [ip |-> ip, is4in6 |-> is4in6]

\* The address sets a host resolves to: two different IPv4 addresses, or one
\* IPv4 address together with its IPv4-mapped IPv6 form.
Hosts == {{Addr(1, FALSE), Addr(2, FALSE)}, {Addr(1, FALSE), Addr(1, TRUE)}}

\* netip.Addr.Unmap: the address with any IPv4-mapped IPv6 prefix removed.
Unmap(a) == [a EXCEPT !.is4in6 = FALSE]

\* netip.AddrPortFrom.
AddrPortFrom(ip, port) == [addr |-> ip, port |-> port]

\* The port lists FastestAddr.pingPorts is configured with.
Ports == {<<>>, <<80>>, <<80, 443>>}

\* Positions in the longest port list.
PortIdx == 1..2

\* All sequences over S of length 0..n.
RECURSIVE SeqsUpTo(_, _)
SeqsUpTo(S, n) ==
  IF n = 0 THEN {<<>>}
  ELSE LET shorter == SeqsUpTo(S, n - 1)
       IN shorter \cup {Append(s, x) : s \in {t \in shorter : Len(t) = n - 1}, x \in S}

\* A probe worker is named by its call, the position of its address in the
\* list and the position of its port in pingPorts.
WorkerIds == Calls \X (1..MaxIps) \X PortIdx

\* pingResult.
pingResult(addrPort, latency, success) ==
  [addrPort |-> addrPort, latency |-> latency, success |-> success]

\* cacheEntry: status 0 is success, anything else failure.
cacheEntry(status, latencyMsec) == [status |-> status, latencyMsec |-> latencyMsec]

\* time.Duration.Milliseconds followed by uint(): whole milliseconds, floored.
Milliseconds(elapsed) == elapsed \div TicksPerMs

(* ------------------------------ state ---------------------------------- *)

VARIABLES
  addrs,      \* the addresses of the host, from which the caller builds ips
  cache,      \* the latency cache: unmapped address -> cacheEntry or Nil
  pingPorts,  \* FastestAddr.pingPorts
  pc,         \* per call: "off", "idle", "scan", "wait", "done"
  ips,        \* per call: the address list
  idx,        \* per call: loop position of schedulePings
  pr,         \* per call: the cached candidate (pr of schedulePings / pingAll)
  scheduled,  \* per call: the scheduled flag
  resCh,      \* per call: Nil or the channel [buf, cap]
  after,      \* per call: ticks since time.After was armed (saturating)
  res,        \* per call: what firstSuccessRes returned
  ret,        \* per call: what pingAll returned
  outcome,    \* per call: which return statement of pingAll was taken
  seen,       \* per call: the cacheFind answers of schedulePings, in order
  dropped,    \* per call: number of failed results firstSuccessRes discarded
  unread,     \* per call: results left in resCh when pingAll returned
  lateWrite,  \* per call: a dial that succeeded after the return was cached
  worker      \* per probe worker: [st, clk, latency, success, late]

vars == <<addrs, cache, pingPorts, pc, ips, idx, pr, scheduled, resCh, after, res, ret,
          outcome, seen, dropped, unread, lateWrite, worker>>

callVars == <<pc, ips, idx, pr, scheduled, resCh, after, res, ret, outcome, seen,
              dropped, unread, lateWrite>>

\* A goroutine that was never started.
NoWorker == [st |-> "none", clk |-> 0, latency |-> 0, success |-> FALSE, late |-> FALSE]

\* The address-port pair worker w dials.
addrPortOf(w) == AddrPortFrom(ips[w[1]][w[2]], pingPorts[w[3]])

(* ------------------------------ cache ---------------------------------- *)

\* FastestAddr.cacheFind.
cacheFind(ip) == IF ip \in DOMAIN cache THEN cache[ip] ELSE Nil

\* FastestAddr.cacheAddSuccessful.
cacheAddSuccessful(addr, latency) == [cache EXCEPT ![addr] = cacheEntry(0, latency)]

\* FastestAddr.cacheAddFailure.
cacheAddFailure(addr) == [cache EXCEPT ![addr] = cacheEntry(1, 0)]

(* --------------------------- pure helpers ------------------------------ *)

\* makeResCh sized by the port list alone.
makeResCh_PortsOnly(ipN, portN) == [buf |-> <<>>, cap |-> portN]

\* makeResCh without a buffer.
makeResCh_Unbuffered(ipN, portN) == [buf |-> <<>>, cap |-> 0]

\* make(chan *pingResult, ipN*len(f.pingPorts)).
makeResCh(ipN, portN) == [buf |-> <<>>, cap |-> ipN * portN]

\* switchCase without case 0: an empty list falls through to the race.
switchCase_NoEmpty(ipN) == IF ipN = 1 THEN "single" ELSE "race"

\* switchCase without case 1: a single address falls through to the race.
switchCase_NoSingle(ipN) == IF ipN = 0 THEN "empty" ELSE "race"

\* The branch the switch of pingAll takes.
switchCase(ipN) ==
  CASE ipN = 0 -> "empty"
    [] ipN = 1 -> "single"
    [] OTHER -> "race"

\* recv handing out the newest element instead of the oldest.
recv_Newest(ch) == ch.buf[Len(ch.buf)]

\* res = <-resCh: a buffered channel hands out its oldest element.
recv(ch) == Head(ch.buf)

\* startWorkers with the go statement reached for the first address only.
startWorkers_FirstOnly(c, i) ==
  [w \in WorkerIds |->
     IF w[1] = c /\ w[2] = i /\ i = 1 /\ w[3] <= Len(pingPorts)
     THEN [st |-> "dial", clk |-> 0, latency |-> 0, success |-> FALSE, late |-> FALSE]
     ELSE worker[w]]

\* startWorkers reaching past its address: the next address of the list is
\* probed along with it, cached or not.
startWorkers_NextToo(c, i) ==
  [w \in WorkerIds |->
     IF w[1] = c /\ w[2] \in {i, i + 1} /\ w[2] <= Len(ips[c]) /\ w[3] <= Len(pingPorts)
     THEN [NoWorker EXCEPT !.st = "dial"]
     ELSE worker[w]]

\* The workers after the go statements for the address at position i of
\* call c: one new goroutine per configured port, each about to dial.
startWorkers(c, i) ==
  [w \in WorkerIds |->
     IF w[1] = c /\ w[2] = i /\ w[3] <= Len(pingPorts)
     THEN [NoWorker EXCEPT !.st = "dial"]
     ELSE worker[w]]

\* keepBest with <= for <: among equal latencies the last one wins.
keepBest_LastOnTie(cur, ip, cached) ==
  IF cached.status = 0 /\ (cur = Nil \/ cached.latencyMsec <= cur.latency)
  THEN pingResult(AddrPortFrom(ip, 0), cached.latencyMsec, TRUE)
  ELSE cur

\* The candidate after schedulePings has looked at one cached entry.
keepBest(cur, ip, cached) ==
  IF cached.status = 0 /\ (cur = Nil \/ cached.latencyMsec < cur.latency)
  THEN pingResult(AddrPortFrom(ip, 0), cached.latencyMsec, TRUE)
  ELSE cur

\* decide with < for <=: the cached candidate wins a tie.
decide_CacheWinsTie(r, cand) ==
  IF r = Nil THEN cand
  ELSE IF cand = Nil \/ r.latency < cand.latency THEN r
  ELSE cand

\* decide returning nil on a timeout, forgetting the cached candidate.
decide_NilOnTimeout(r, cand) ==
  IF r = Nil THEN Nil
  ELSE IF cand = Nil \/ r.latency <= cand.latency THEN r
  ELSE cand

\* The tail of pingAll: merge the arbiter's result with the cached candidate.
decide(r, cand) ==
  IF r = Nil THEN cand
  ELSE IF cand = Nil \/ r.latency <= cand.latency THEN r
  ELSE cand

(* ------------------------------ pingAll -------------------------------- *)

\* pingAll is entered with an address list: the switch on len(ips) and the
\* creation of the result channel.
pingAll(c, list) ==
  /\ pc[c] = "idle"
  /\ ips' = [ips EXCEPT ![c] = list]
  /\ CASE switchCase(Len(list)) = "empty" ->
            /\ ret' = [ret EXCEPT ![c] = Nil]
            /\ outcome' = [outcome EXCEPT ![c] = "empty"]
            /\ pc' = [pc EXCEPT ![c] = "done"]
            /\ UNCHANGED <<resCh, idx>>
       [] switchCase(Len(list)) = "single" ->
            /\ ret' = [ret EXCEPT ![c] = pingResult(AddrPortFrom(list[1], 0), 0, TRUE)]
            /\ outcome' = [outcome EXCEPT ![c] = "single"]
            /\ pc' = [pc EXCEPT ![c] = "done"]
            /\ UNCHANGED <<resCh, idx>>
       [] OTHER ->
            /\ resCh' = [resCh EXCEPT ![c] = makeResCh(Len(list), Len(pingPorts))]
            /\ idx' = [idx EXCEPT ![c] = 1]
            /\ pc' = [pc EXCEPT ![c] = "scan"]
            /\ UNCHANGED <<ret, outcome>>
  /\ UNCHANGED <<addrs, cache, pingPorts, pr, scheduled, after, res, seen, dropped,
                 unread, lateWrite, worker>>

\* schedulePings probing again an address whose cache entry is a failure.
schedulePings_ProbesFailures(c) ==
  /\ pc[c] = "scan"
  /\ idx[c] <= Len(ips[c])
  /\ LET ip == ips[c][idx[c]]
         cached == cacheFind(ip)
     IN /\ seen' = [seen EXCEPT ![c] = Append(@, cached)]
        /\ IF cached = Nil \/ cached.status # 0
           THEN /\ scheduled' = [scheduled EXCEPT ![c] = TRUE]
                /\ worker' = startWorkers(c, idx[c])
                /\ UNCHANGED pr
           ELSE /\ pr' = [pr EXCEPT ![c] = keepBest(@, ip, cached)]
                /\ UNCHANGED <<scheduled, worker>>
  /\ idx' = [idx EXCEPT ![c] = @ + 1]
  /\ UNCHANGED <<addrs, cache, pingPorts, pc, ips, resCh, after, res, ret, outcome,
                 dropped, unread, lateWrite>>

\* One iteration of the loop of schedulePings.
schedulePings(c) ==
  /\ pc[c] = "scan"
  /\ idx[c] <= Len(ips[c])
  /\ LET ip == ips[c][idx[c]]
         cached == cacheFind(ip)
     IN /\ seen' = [seen EXCEPT ![c] = Append(@, cached)]
        /\ IF cached = Nil
           THEN /\ scheduled' = [scheduled EXCEPT ![c] = TRUE]
                /\ worker' = startWorkers(c, idx[c])
                /\ UNCHANGED pr
           ELSE /\ pr' = [pr EXCEPT ![c] = keepBest(@, ip, cached)]
                /\ UNCHANGED <<scheduled, worker>>
  /\ idx' = [idx EXCEPT ![c] = @ + 1]
  /\ UNCHANGED <<addrs, cache, pingPorts, pc, ips, resCh, after, res, ret, outcome,
                 dropped, unread, lateWrite>>

\* schedulePingsReturn taking "scheduled" to mean that a goroutine was
\* started: with no worker to wait for, pingAll returns at once.
schedulePingsReturn_NoWorkersNoWait(c) ==
  /\ pc[c] = "scan"
  /\ idx[c] > Len(ips[c])
  /\ IF ~scheduled[c] \/ \A w \in WorkerIds : w[1] = c => worker[w].st = "none"
     THEN /\ ret' = [ret EXCEPT ![c] = pr[c]]
          /\ outcome' = [outcome EXCEPT ![c] = "cached"]
          /\ pc' = [pc EXCEPT ![c] = "done"]
          /\ UNCHANGED after
     ELSE /\ after' = [after EXCEPT ![c] = 0]
          /\ pc' = [pc EXCEPT ![c] = "wait"]
          /\ UNCHANGED <<ret, outcome>>
  /\ UNCHANGED <<addrs, cache, pingPorts, ips, idx, pr, scheduled, resCh, res, seen,
                 dropped, unread, lateWrite, worker>>

\* schedulePings returns; pingAll either returns the cached candidate or
\* enters firstSuccessRes, which arms its timer.
schedulePingsReturn(c) ==
  /\ pc[c] = "scan"
  /\ idx[c] > Len(ips[c])
  /\ IF ~scheduled[c]
     THEN /\ ret' = [ret EXCEPT ![c] = pr[c]]
          /\ outcome' = [outcome EXCEPT ![c] = "cached"]
          /\ pc' = [pc EXCEPT ![c] = "done"]
          /\ UNCHANGED after
     ELSE /\ after' = [after EXCEPT ![c] = 0]
          /\ pc' = [pc EXCEPT ![c] = "wait"]
          /\ UNCHANGED <<ret, outcome>>
  /\ UNCHANGED <<addrs, cache, pingPorts, ips, idx, pr, scheduled, resCh, res, seen,
                 dropped, unread, lateWrite, worker>>

\* firstSuccessResRecv without the success test: whatever is received first
\* is returned.
firstSuccessResRecv_ReturnsAny(c) ==
  /\ pc[c] = "wait"
  /\ Len(resCh[c].buf) > 0
  /\ LET r == recv(resCh[c])
     IN /\ resCh' = [resCh EXCEPT ![c].buf = Tail(@)]
        /\ res' = [res EXCEPT ![c] = r]
        /\ ret' = [ret EXCEPT ![c] = decide(r, pr[c])]
        /\ outcome' = [outcome EXCEPT ![c] = "live"]
        /\ pc' = [pc EXCEPT ![c] = "done"]
        /\ unread' = [unread EXCEPT ![c] = Len(resCh[c].buf) - 1]
        /\ UNCHANGED dropped
  /\ UNCHANGED <<addrs, cache, pingPorts, ips, idx, pr, scheduled, after, seen,
                 lateWrite, worker>>

\* firstSuccessResRecv giving up on the first failed result: it returns nil
\* as on a timeout.
firstSuccessResRecv_StopsOnFailure(c) ==
  /\ pc[c] = "wait"
  /\ Len(resCh[c].buf) > 0
  /\ LET r == recv(resCh[c])
     IN /\ resCh' = [resCh EXCEPT ![c].buf = Tail(@)]
        /\ res' = [res EXCEPT ![c] = IF r.success THEN r ELSE Nil]
        /\ ret' = [ret EXCEPT ![c] = decide(IF r.success THEN r ELSE Nil, pr[c])]
        /\ outcome' = [outcome EXCEPT ![c] = IF r.success THEN "live" ELSE "timeout"]
        /\ pc' = [pc EXCEPT ![c] = "done"]
        /\ unread' = [unread EXCEPT ![c] = Len(resCh[c].buf) - 1]
        /\ UNCHANGED dropped
  /\ UNCHANGED <<addrs, cache, pingPorts, ips, idx, pr, scheduled, after, seen,
                 lateWrite, worker>>

\* firstSuccessRes, case res = <-resCh: a failed result is dropped, a
\* successful one is returned and pingAll decides.
firstSuccessResRecv(c) ==
  /\ pc[c] = "wait"
  /\ Len(resCh[c].buf) > 0
  /\ LET r == recv(resCh[c])
     IN /\ resCh' = [resCh EXCEPT ![c].buf = Tail(@)]
        /\ IF ~r.success
           THEN /\ dropped' = [dropped EXCEPT ![c] = @ + 1]
                /\ UNCHANGED <<pc, res, ret, outcome, unread>>
           ELSE /\ res' = [res EXCEPT ![c] = r]
                /\ ret' = [ret EXCEPT ![c] = decide(r, pr[c])]
                /\ outcome' = [outcome EXCEPT ![c] = "live"]
                /\ pc' = [pc EXCEPT ![c] = "done"]
                /\ unread' = [unread EXCEPT ![c] = Len(resCh[c].buf) - 1]
                /\ UNCHANGED dropped
  /\ UNCHANGED <<addrs, cache, pingPorts, ips, idx, pr, scheduled, after, seen,
                 lateWrite, worker>>

\* firstSuccessResTimeout joining the probe workers first: the deadline is
\* honoured only once every worker of the call has finished.
firstSuccessResTimeout_WaitsForWorkers(c) ==
  /\ pc[c] = "wait"
  /\ after[c] >= PingWaitTimeout
  /\ \A w \in WorkerIds : w[1] = c => worker[w].st \in {"none", "done"}
  /\ res' = [res EXCEPT ![c] = Nil]
  /\ ret' = [ret EXCEPT ![c] = decide(Nil, pr[c])]
  /\ outcome' = [outcome EXCEPT ![c] = "timeout"]
  /\ pc' = [pc EXCEPT ![c] = "done"]
  /\ unread' = [unread EXCEPT ![c] = Len(resCh[c].buf)]
  /\ UNCHANGED <<addrs, cache, pingPorts, ips, idx, pr, scheduled, resCh, after, seen,
                 dropped, lateWrite, worker>>

\* firstSuccessRes, case <-after: the wait budget has elapsed.
firstSuccessResTimeout(c) ==
  /\ pc[c] = "wait"
  /\ after[c] >= PingWaitTimeout
  /\ res' = [res EXCEPT ![c] = Nil]
  /\ ret' = [ret EXCEPT ![c] = decide(Nil, pr[c])]
  /\ outcome' = [outcome EXCEPT ![c] = "timeout"]
  /\ pc' = [pc EXCEPT ![c] = "done"]
  /\ unread' = [unread EXCEPT ![c] = Len(resCh[c].buf)]
  /\ UNCHANGED <<addrs, cache, pingPorts, ips, idx, pr, scheduled, resCh, after, seen,
                 dropped, lateWrite, worker>>

(* ------------------------------ pingDoTCP ------------------------------ *)

\* pingDoTCPDial with the cache told first: the outcome is recorded as soon
\* as Dial returns, before the result is sent.
pingDoTCPDial_CachesFirst(w, ok) ==
  /\ worker[w].st = "dial"
  /\ worker' = [worker EXCEPT ![w] = [st |-> "send", clk |-> 0,
                                      latency |-> Milliseconds(worker[w].clk),
                                      success |-> ok,
                                      late |-> pc[w[1]] = "done"]]
  /\ cache' = IF ok THEN cacheAddSuccessful(Unmap(ips[w[1]][w[2]]),
                                            Milliseconds(worker[w].clk))
              ELSE cacheAddFailure(Unmap(ips[w[1]][w[2]]))
  /\ UNCHANGED <<addrs, pingPorts, callVars>>

\* Dial returns, with or without an error; elapsed and latency are taken.
pingDoTCPDial(w, ok) ==
  /\ worker[w].st = "dial"
  /\ worker' = [worker EXCEPT ![w] = [st |-> "send", clk |-> 0,
                                      latency |-> Milliseconds(worker[w].clk),
                                      success |-> ok,
                                      late |-> pc[w[1]] = "done"]]
  /\ UNCHANGED <<addrs, cache, pingPorts, callVars>>

\* pingDoTCPSend returning right after the send: the cache is never told.
pingDoTCPSend_NoCache(w) ==
  /\ worker[w].st = "send"
  /\ Len(resCh[w[1]].buf) < resCh[w[1]].cap
  /\ resCh' = [resCh EXCEPT ![w[1]].buf =
                 Append(@, pingResult(addrPortOf(w), worker[w].latency, worker[w].success))]
  /\ worker' = [worker EXCEPT ![w] = [NoWorker EXCEPT !.st = "done"]]
  /\ UNCHANGED <<addrs, cache, pingPorts, pc, ips, idx, pr, scheduled, after, res, ret,
                 outcome, seen, dropped, unread, lateWrite>>

\* pingDoTCPSend on a sink that belongs to the FastestAddr instead of the
\* call: every worker sends to the sink made first.
pingDoTCPSend_SharedSink(w) ==
  LET d == CHOOSE c \in Calls : resCh[c] # Nil /\ \A e \in Calls : resCh[e] # Nil => c <= e
  IN /\ worker[w].st = "send"
     /\ Len(resCh[d].buf) < resCh[d].cap
     /\ resCh' = [resCh EXCEPT ![d].buf =
                    Append(@, pingResult(addrPortOf(w), worker[w].latency, worker[w].success))]
     /\ worker' = [worker EXCEPT ![w].st = "cache"]
     /\ UNCHANGED <<addrs, cache, pingPorts, pc, ips, idx, pr, scheduled, after, res, ret,
                    outcome, seen, dropped, unread, lateWrite>>

\* resCh <- &pingResult{...}: blocks while the channel is full.
pingDoTCPSend(w) ==
  /\ worker[w].st = "send"
  /\ Len(resCh[w[1]].buf) < resCh[w[1]].cap
  /\ resCh' = [resCh EXCEPT ![w[1]].buf =
                 Append(@, pingResult(addrPortOf(w), worker[w].latency, worker[w].success))]
  /\ worker' = [worker EXCEPT ![w].st = "cache"]
  /\ UNCHANGED <<addrs, cache, pingPorts, pc, ips, idx, pr, scheduled, after, res, ret,
                 outcome, seen, dropped, unread, lateWrite>>

\* cacheUpdate recording every success with latency 0.
cacheUpdate_ZeroLatency(addrPort, success, latency) ==
  IF success THEN cacheAddSuccessful(Unmap(addrPort.addr), 0)
  ELSE cacheAddFailure(Unmap(addrPort.addr))

\* cacheUpdate recording successes only: a failed dial leaves no trace.
cacheUpdate_SuccessOnly(addrPort, success, latency) ==
  IF success THEN cacheAddSuccessful(Unmap(addrPort.addr), latency)
  ELSE cache

\* The cache after the side effect of pingDoTCP, keyed by the unmapped
\* address.
cacheUpdate(addrPort, success, latency) ==
  IF success THEN cacheAddSuccessful(Unmap(addrPort.addr), latency)
  ELSE cacheAddFailure(Unmap(addrPort.addr))

\* The cache side effect; the goroutine ends.
pingDoTCPCache(w) ==
  /\ worker[w].st = "cache"
  /\ cache' = cacheUpdate(addrPortOf(w), worker[w].success, worker[w].latency)
  /\ worker' = [worker EXCEPT ![w] = [NoWorker EXCEPT !.st = "done"]]
  /\ lateWrite' = [lateWrite EXCEPT ![w[1]] = @ \/ (worker[w].late /\ worker[w].success)]
  /\ UNCHANGED <<addrs, pingPorts, pc, ips, idx, pr, scheduled, resCh, after, res, ret,
                 outcome, seen, dropped, unread>>

\* The next step of the goroutine pingDoTCP of worker w.
pingDoTCP(w) ==
  \/ \E ok \in BOOLEAN : pingDoTCPDial(w, ok)
  \/ pingDoTCPSend(w)
  \/ pingDoTCPCache(w)

(* ------------------------------- time ---------------------------------- *)

\* One tick passes for every running stopwatch and timer.  A dial returns
\* no later than the dialer's timeout, so time does not pass it by.
Tick ==
  /\ \A w \in WorkerIds : worker[w].st = "dial" => worker[w].clk < pingTCPTimeout
  /\ \/ \E w \in WorkerIds : worker[w].st = "dial"
     \/ \E c \in Calls : pc[c] = "wait" /\ after[c] < PingWaitTimeout
  /\ worker' = [w \in WorkerIds |->
                  IF worker[w].st = "dial" THEN [worker[w] EXCEPT !.clk = @ + 1]
                  ELSE worker[w]]
  /\ after' = [c \in Calls |->
                 IF pc[c] = "wait" /\ after[c] < PingWaitTimeout THEN after[c] + 1
                 ELSE after[c]]
  /\ UNCHANGED <<addrs, cache, pingPorts, pc, ips, idx, pr, scheduled, resCh, res, ret,
                 outcome, seen, dropped, unread, lateWrite>>

(* --------------------------- specification ----------------------------- *)

\* The caches the program can have built for the addresses in S: entries
\* only under unmapped keys.
InitCaches(S) ==
  [ {Unmap(a) : a \in S} ->
      {Nil, cacheEntry(1, 0), cacheEntry(0, 0), cacheEntry(0, 1)} ]

InitCalls(active) ==
  /\ pc = [c \in Calls |-> IF c \in active THEN "idle" ELSE "off"]
  /\ ips = [c \in Calls |-> <<>>]
  /\ idx = [c \in Calls |-> 0]
  /\ pr = [c \in Calls |-> Nil]
  /\ scheduled = [c \in Calls |-> FALSE]
  /\ resCh = [c \in Calls |-> Nil]
  /\ after = [c \in Calls |-> 0]
  /\ res = [c \in Calls |-> Nil]
  /\ ret = [c \in Calls |-> Nil]
  /\ outcome = [c \in Calls |-> "none"]
  /\ seen = [c \in Calls |-> <<>>]
  /\ dropped = [c \in Calls |-> 0]
  /\ unread = [c \in Calls |-> 0]
  /\ lateWrite = [c \in Calls |-> FALSE]
  /\ worker = [w \in WorkerIds |-> NoWorker]

\* The address lists a caller hands to pingAll: the lists over the host's
\* addresses, of length 0..MaxIps, that need at most MaxProbes probes.
ipLists ==
  {list \in SeqsUpTo(addrs, MaxIps) :
     Cardinality({i \in 1..Len(list) : cacheFind(list[i]) = Nil}) * Len(pingPorts)
       <= MaxProbes}

\* One call of pingAll on a FastestAddr with any cache and any port list.
Init ==
  /\ addrs \in Hosts
  /\ cache \in InitCaches(addrs)
  /\ pingPorts \in Ports
  /\ InitCalls({1})

Next ==
  \/ \E c \in Calls : pc[c] = "idle" /\ \E list \in ipLists : pingAll(c, list)
  \/ \E c \in Calls : schedulePings(c)
  \/ \E c \in Calls : schedulePingsReturn(c)
  \/ \E c \in Calls : firstSuccessResRecv(c)
  \/ \E c \in Calls : firstSuccessResTimeout(c)
  \/ \E w \in WorkerIds : pingDoTCP(w)
  \/ Tick

Spec == Init /\ [][Next]_vars

\* The probe goroutines keep running: while some worker can take its next
\* step, some worker eventually takes one (the scheduler runs runnable
\* goroutines and, the dialer applying its own timeout, every Dial returns).
\* Nothing is assumed of the caller, the arbiter or the clock.
FairWorkers == Spec /\ WF_vars(\E w \in WorkerIds : pingDoTCP(w))

\* The next step of the goroutine that runs pingAll for call c, once the
\* call has been made.
pingAllStep(c) ==
  \/ schedulePings(c)
  \/ schedulePingsReturn(c)
  \/ firstSuccessResRecv(c)
  \/ firstSuccessResTimeout(c)

\* The clock keeps ticking, every Dial returns (by the dialer's timeout at
\* the latest) and the goroutine of each call keeps running; a select with
\* a ready case takes one.  Nothing is assumed of what a probe worker does
\* after its Dial: it may never deliver its result.
FairTimer ==
  /\ Spec
  /\ WF_vars(Tick)
  /\ WF_vars(\E w \in WorkerIds : \E ok \in BOOLEAN : pingDoTCPDial(w, ok))
  /\ \A c \in Calls : WF_vars(pingAllStep(c))

\* The address lists of two callers that use the FastestAddr at once: pairs
\* of addresses of which at most one needs a probe.
pairLists ==
  {list \in ipLists :
     Len(list) = 2 /\ Cardinality({i \in 1..2 : cacheFind(list[i]) = Nil}) <= 1}

\* Two calls of pingAll on one FastestAddr with one port and any cache.
InitTwoCalls ==
  /\ addrs = {Addr(1, FALSE), Addr(2, FALSE)}
  /\ cache \in InitCaches(addrs)
  /\ pingPorts = <<80>>
  /\ InitCalls({1, 2})

NextTwoCalls ==
  \/ \E c \in Calls : pc[c] = "idle" /\ \E list \in pairLists : pingAll(c, list)
  \/ \E c \in Calls : schedulePings(c)
  \/ \E c \in Calls : schedulePingsReturn(c)
  \/ \E c \in Calls : firstSuccessResRecv(c)
  \/ \E c \in Calls : firstSuccessResTimeout(c)
  \/ \E w \in WorkerIds : pingDoTCP(w)
  \/ Tick

\* The two calls run concurrently, their steps interleaved in any order.
TwoCalls == InitTwoCalls /\ [][NextTwoCalls]_vars

(* ------------------------- vocabulary of the claims -------------------- *)

\* The probe workers call c has started so far.
started(c) == {w \in WorkerIds : w[1] = c /\ worker[w].st # "none"}

\* The probe workers of call c that have not finished yet.
running(c) == {w \in WorkerIds : w[1] = c /\ worker[w].st \in {"dial", "send", "cache"}}

\* A cacheFind answer that is a success entry.
isSuccess(e) == e # Nil /\ e.status = 0

\* A cacheFind answer that is a failure entry.
isFailure(e) == e # Nil /\ e.status # 0

\* The positions of call c at which the scan found a success entry.
hits(c) == {i \in 1..Len(seen[c]) : isSuccess(seen[c][i])}

\* The best cached candidate of call c, stated from what the scan saw: the
\* first position among those of minimal cached latency, or Nil.
bestCached(c) ==
  IF hits(c) = {} THEN Nil
  ELSE LET i == CHOOSE k \in hits(c) :
                  \A j \in hits(c) :
                    \/ seen[c][k].latencyMsec < seen[c][j].latencyMsec
                    \/ seen[c][k].latencyMsec = seen[c][j].latencyMsec /\ k <= j
       IN pingResult(AddrPortFrom(ips[c][i], 0), seen[c][i].latencyMsec, TRUE)

(* -------------------------------- claims ------------------------------- *)

\* C1: when the arbiter yields a live winner W and the scan left candidate
\* C, pingAll returns W if C is absent or W.latency <= C.latency, and returns
\* C only if C.latency < W.latency; on equal latency W is returned.
C1_LiveVersusCached ==
  \A c \in Calls :
    outcome[c] = "live" =>
      /\ Len(ips[c]) >= 2 /\ started(c) # {}
      /\ res[c] # Nil /\ res[c].success
      /\ ret[c] \in {res[c], pr[c]}
      /\ (pr[c] = Nil => ret[c] = res[c])
      /\ (pr[c] # Nil /\ res[c].latency <= pr[c].latency => ret[c] = res[c])
      /\ (ret[c] # res[c] => pr[c] # Nil /\ pr[c].latency < res[c].latency)

\* C1 witness: a race that ended on a live winner whose latency equals the
\* cached candidate's, and the live winner was returned.
C1_Witness ==
  \E c \in Calls :
    /\ outcome[c] = "live" /\ pr[c] # Nil
    /\ res[c].latency = pr[c].latency
    /\ ret[c] = res[c] /\ ret[c] # pr[c]

\* C2: if probes were scheduled and the wait budget elapses before a
\* successful result is received, pingAll returns exactly the best cached
\* candidate of the scan, or nil if the scan found no success entry.
C2_TimeoutReturnsCached ==
  \A c \in Calls :
    outcome[c] = "timeout" =>
      /\ scheduled[c] /\ res[c] = Nil
      /\ ret[c] = bestCached(c)

\* C2 witness: a call that timed out after a failed result was dropped,
\* with a worker still running, and that fell back to a cached candidate.
C2_Witness ==
  \E c \in Calls :
    /\ outcome[c] = "timeout" /\ dropped[c] >= 1 /\ running(c) # {}
    /\ ret[c] # Nil /\ ret[c] = bestCached(c)

\* C3: if all N >= 2 addresses have success entries, pingAll starts no
\* probe worker, does not wait on the arbiter, and returns the address of
\* minimal cached latency, the first in input order among equals.
C3_AllCached ==
  \A c \in Calls :
    (pc[c] = "done" /\ Len(ips[c]) >= 2 /\ hits(c) = 1..Len(ips[c])) =>
      /\ started(c) = {}
      /\ outcome[c] = "cached" /\ after[c] = 0 /\ res[c] = Nil
      /\ ret[c] # Nil /\ ret[c].success
      /\ \E i \in 1..Len(ips[c]) :
           /\ ret[c].addrPort.addr = ips[c][i]
           /\ ret[c].latency = seen[c][i].latencyMsec
           /\ \A j \in 1..Len(ips[c]) : ret[c].latency <= seen[c][j].latencyMsec
           /\ \A j \in 1..(i - 1) : seen[c][j].latencyMsec > ret[c].latency

\* C3 witness: two different addresses cached with the same latency, and
\* the first of them returned.
C3_Witness ==
  \E c \in Calls :
    /\ pc[c] = "done" /\ Len(ips[c]) = 2 /\ hits(c) = {1, 2}
    /\ ips[c][1] # ips[c][2]
    /\ seen[c][1].latencyMsec = seen[c][2].latencyMsec
    /\ ret[c].addrPort.addr = ips[c][1]

liveAtReturn(c) ==
  {res[c]} \cup {resCh[c].buf[i] : i \in {k \in 1..unread[c] : resCh[c].buf[k].success}}

\* C5 (as claimed): when a probe succeeds within the wait budget, the live
\* result that enters the decision is the lowest-latency one among all the
\* successful results placed in the sink before the arbiter returned, and
\* pingAll returns the minimum by latency over those and the candidate.
C5_Original ==
  \A c \in Calls :
    outcome[c] = "live" =>
      /\ \A r \in liveAtReturn(c) : res[c].latency <= r.latency
      /\ \A r \in liveAtReturn(c) : ret[c].latency <= r.latency
      /\ pr[c] # Nil => ret[c].latency <= pr[c].latency

\* C5 (amended): when a probe succeeds within the wait budget, the live
\* result that enters the decision is the oldest result in the sink at the
\* moment the arbiter returns, a successful one (everything received before
\* it was a failure and was dropped), whatever the latencies of the results
\* queued behind it; pingAll returns the cached candidate if that is strictly
\* faster and this live result otherwise.
C5_FirstSuccessDecides ==
  [][\A c \in Calls :
       (outcome[c] = "none" /\ outcome'[c] = "live") =>
         /\ res'[c] = Head(resCh[c].buf)
         /\ res'[c].success
         /\ resCh'[c].buf = Tail(resCh[c].buf)
         /\ ret'[c] = IF pr[c] # Nil /\ pr[c].latency < res'[c].latency
                      THEN pr[c] ELSE res'[c]]_vars

\* C5 witness: the arbiter returned a winner while a successful result of
\* strictly lower latency was already waiting in the sink behind it.
C5_Witness ==
  \E c \in Calls :
    /\ outcome[c] = "live"
    /\ \E r \in liveAtReturn(c) : r.latency < res[c].latency
    /\ ret[c] = res[c]

\* C6: for an empty address list pingAll returns nil, starts no probe
\* worker (so nothing writes the cache for it), makes no result channel
\* and looks nothing up in the cache.
C6_EmptyList ==
  \A c \in Calls :
    (pc[c] \notin {"off", "idle"} /\ Len(ips[c]) = 0) =>
      /\ pc[c] = "done" /\ outcome[c] = "empty"
      /\ ret[c] = Nil
      /\ started(c) = {}
      /\ resCh[c] = Nil
      /\ seen[c] = <<>> /\ ~scheduled[c] /\ ~lateWrite[c]

\* C6 witness: a call with an empty list has returned, on a FastestAddr
\* with ports configured and an empty cache entry.
C6_Witness ==
  \E c \in Calls :
    /\ pc[c] = "done" /\ Len(ips[c]) = 0 /\ ret[c] = Nil
    /\ Len(pingPorts) >= 1
    /\ \E a \in DOMAIN cache : cache[a] = Nil

\* C7: for a list of one address pingAll returns that address with
\* success = true, latency 0 and port 0, without a probe worker, a dial or a
\* cache lookup, even when the cache holds a failure entry for it.
C7_SingleAddress ==
  \A c \in Calls :
    (pc[c] \notin {"off", "idle"} /\ Len(ips[c]) = 1) =>
      /\ pc[c] = "done" /\ outcome[c] = "single"
      /\ ret[c] = [addrPort |-> [addr |-> ips[c][1], port |-> 0],
                   latency |-> 0, success |-> TRUE]
      /\ started(c) = {}
      /\ resCh[c] = Nil
      /\ seen[c] = <<>> /\ ~scheduled[c]

\* C7 witness: a single address with a failure entry in the cache was
\* returned as a success.
C7_Witness ==
  \E c \in Calls :
    /\ pc[c] = "done" /\ Len(ips[c]) = 1
    /\ isFailure(cacheFind(ips[c][1]))
    /\ ret[c] # Nil /\ ret[c].success /\ ret[c].addrPort.addr = ips[c][1]

\* C8: the result sink never holds more results than its capacity, and a
\* worker about to send always finds room, whether the arbiter is reading,
\* has returned a winner or has timed out, repeated addresses included.
C8_SendNeverBlocks ==
  \A c \in Calls :
    resCh[c] # Nil =>
      /\ Len(resCh[c].buf) <= resCh[c].cap
      /\ \A w \in started(c) :
           worker[w].st = "send" => Len(resCh[c].buf) < resCh[c].cap

\* C8 witness: the same address twice, both probes finished after pingAll
\* had returned, and their two results fill the sink to its capacity.
C8_Witness ==
  \E c \in Calls :
    /\ pc[c] = "done" /\ Len(ips[c]) = 2 /\ ips[c][1] = ips[c][2]
    /\ unread[c] = 0
    /\ Len(resCh[c].buf) = 2 /\ resCh[c].cap = 2
    /\ running(c) = {}

\* C9: given that every Dial returns, every probe worker a call started
\* eventually terminates, also when nobody reads its result because pingAll
\* has already returned; no worker stays blocked on the sink.  The calls
\* being finitely many, that is: from some moment on every worker either
\* was never started or has terminated.
C9_WorkersTerminate ==
  <>[](\A w \in WorkerIds : worker[w].st \in {"none", "done"})

\* C9 witness: pingAll returned on the deadline, all its workers have
\* terminated, and a result nobody will read sits in the sink.
C9_Witness ==
  \E c \in Calls :
    /\ outcome[c] = "timeout"
    /\ started(c) # {} /\ running(c) = {}
    /\ Len(resCh[c].buf) > unread[c]

\* The workers whose dial succeeded after pingAll had returned and that have
\* not recorded it yet.
lateSuccess == {w \in WorkerIds : worker[w].st \in {"send", "cache"}
                                  /\ worker[w].late /\ worker[w].success}

\* C10: a probe whose dial succeeds after pingAll has returned (the wait
\* budget elapsed) still ends by recording a success entry with its measured
\* latency for its address (unmapped) in the cache, and that leaves the
\* value pingAll returned untouched.
C10_LateSuccessCached ==
  /\ [][\A w \in lateSuccess :
          worker'[w].st = "done" =>
            /\ cache'[Unmap(ips[w[1]][w[2]])] = [status |-> 0, latencyMsec |-> worker[w].latency]
            /\ ret' = ret /\ outcome' = outcome /\ pc' = pc]_vars
  /\ (lateSuccess # {}) ~> (lateSuccess = {})

\* C10 witness: pingAll returned on the deadline with nothing, a dial
\* succeeded afterwards and its success is now in the cache for an address
\* the scan had found uncached.
C10_Witness ==
  \E c \in Calls :
    /\ outcome[c] = "timeout" /\ ret[c] = Nil
    /\ lateWrite[c] /\ running(c) = {}
    /\ \E i \in 1..Len(ips[c]) :
         seen[c][i] = Nil /\ isSuccess(cacheFind(Unmap(ips[c][i])))

\* The probe workers call c has started for the address with cache key k.
probesOf(c, k) == {w \in started(c) : Unmap(ips[c][w[2]]) = k}

\* Call c probes the address with cache key k on different ports at once.
severalPorts(c, k) == \E v, w \in probesOf(c, k) : v[3] # w[3]

\* The successful results the probes of call c have delivered for the
\* address with cache key k: those in the sink and the one received.
successesOf(c, k) ==
  {i \in 1..Len(resCh[c].buf) :
     resCh[c].buf[i].success /\ Unmap(resCh[c].buf[i].addrPort.addr) = k}

wonBy(c, k) == res[c] # Nil /\ Unmap(res[c].addrPort.addr) = k

numSuccesses(c, k) == Cardinality(successesOf(c, k)) + (IF wonBy(c, k) THEN 1 ELSE 0)

\* The latencies of those successful results.
latenciesOf(c, k) ==
  {resCh[c].buf[i].latency : i \in successesOf(c, k)}
    \cup (IF wonBy(c, k) THEN {res[c].latency} ELSE {})

C12_NeverWaitsForWorkers ==
  /\ [](\A c \in Calls :
         pc[c] = "wait" =>
           /\ after[c] >= PingWaitTimeout => ENABLED firstSuccessResTimeout(c)
           /\ (Len(resCh[c].buf) > 0 /\ Head(resCh[c].buf).success) =>
                ENABLED firstSuccessResRecv(c))
  /\ <>[](\A c \in Calls : pc[c] \notin {"scan", "wait"})

\* C12 witness: pingAll has returned on the deadline while every worker it
\* started is still running and none has delivered a result.
C12_Witness ==
  \E c \in Calls :
    /\ pc[c] = "done" /\ outcome[c] = "timeout"
    /\ started(c) # {} /\ running(c) = started(c)
    /\ \A w \in started(c) : worker[w].st \in {"dial", "send"}
    /\ resCh[c].buf = <<>> /\ dropped[c] = 0

\* C13: every call of pingAll ends in one of two outcomes: nil, or a result
\* with success = true whose address is one of the addresses the caller
\* supplied.  A result with success = false is never returned, and before the
\* call has returned nothing is.
C13_NilOrSuccess ==
  \A c \in Calls :
    /\ pc[c] # "done" => ret[c] = Nil /\ outcome[c] = "none"
    /\ pc[c] = "done" =>
         /\ outcome[c] \in {"empty", "single", "cached", "timeout", "live"}
         /\ \/ ret[c] = Nil
            \/ /\ ret[c].success
               /\ \E i \in 1..Len(ips[c]) : ret[c].addrPort.addr = ips[c][i]

\* C13 witness: a dial failed, its result was received and dropped, and the
\* call ended with nil on the deadline.
C13_Witness ==
  \E c \in Calls :
    /\ pc[c] = "done" /\ dropped[c] >= 1
    /\ outcome[c] = "timeout" /\ ret[c] = Nil

\* C14: in schedulePings an address whose cache entry is a failure starts
\* no probe worker, contributes no candidate (the candidate is the best of
\* the success entries alone) and does not set the scheduled flag (which is
\* set exactly when some address was found absent); so a call whose N >= 2
\* addresses all have failure entries returns nil at once, having started no
\* probe and never waited.
C14_FailureEntryNotProbed ==
  \A c \in Calls :
    /\ \A i \in 1..Len(seen[c]) :
         isFailure(seen[c][i]) => ~\E w \in started(c) : w[2] = i
    /\ pr[c] = bestCached(c)
    /\ scheduled[c] <=> \E i \in 1..Len(seen[c]) : seen[c][i] = Nil
    /\ (Len(ips[c]) >= 2 /\ Len(seen[c]) = Len(ips[c])
          /\ \A i \in 1..Len(seen[c]) : isFailure(seen[c][i])) =>
         /\ started(c) = {} /\ ~scheduled[c] /\ pr[c] = Nil
         /\ pc[c] \in {"scan", "done"} /\ after[c] = 0 /\ resCh[c].buf = <<>>
         /\ pc[c] = "done" => outcome[c] = "cached" /\ ret[c] = Nil

\* C14 witness: two different addresses, both with failure entries, ports
\* configured, and the call has returned nil.
C14_Witness ==
  \E c \in Calls :
    /\ pc[c] = "done" /\ Len(ips[c]) = 2 /\ ips[c][1] # ips[c][2]
    /\ isFailure(seen[c][1]) /\ isFailure(seen[c][2])
    /\ Len(pingPorts) >= 1
    /\ ret[c] = Nil /\ started(c) = {}

\* C15: firstSuccessRes never returns on an unsuccessful result.  Whenever
\* it receives a result from the sink, a failed one is discarded and the
\* wait goes on with nothing returned, and a successful one is returned at
\* once; so what it returns is the first successful result in the order of
\* receipt, and nil only when the deadline has fired.
C15_FailuresDiscarded ==
  /\ [](\A c \in Calls :
         /\ pc[c] = "wait" => res[c] = Nil
         /\ outcome[c] = "timeout" => res[c] = Nil /\ after[c] >= PingWaitTimeout
         /\ outcome[c] = "live" => res[c] # Nil /\ res[c].success)
  /\ [][\A c \in Calls :
          (pc[c] = "wait" /\ Len(resCh[c].buf) > 0
             /\ resCh'[c].buf = Tail(resCh[c].buf)) =>
            IF Head(resCh[c].buf).success
            THEN pc'[c] = "done" /\ res'[c] = Head(resCh[c].buf)
            ELSE /\ pc'[c] = "wait" /\ res'[c] = Nil /\ ret'[c] = Nil
                 /\ outcome'[c] = "none"
                 /\ dropped'[c] = dropped[c] + 1]_vars

\* C15 witness: a failed result was received and discarded, the wait went
\* on, and the successful result received after it was returned.
C15_Witness ==
  \E c \in Calls :
    /\ outcome[c] = "live" /\ dropped[c] >= 1
    /\ res[c].success /\ ret[c] = res[c]

\* The results call c has received from its sink so far.
received(c) == dropped[c] + (IF res[c] # Nil THEN 1 ELSE 0)

\* C16: every probe worker goes from its dial to one send and from that to
\* one cache write and then ends.  The send places one result in the sink of
\* its call, carrying the address-port pair, the latency and the outcome of
\* the dial, and leaves the cache alone; the cache write records, under the
\* address without its port, a success entry with the same latency if the
\* dial succeeded and a failure entry if it failed, and leaves the sink
\* alone.  So the results a call's workers have placed in its sink are as
\* many as the workers that got past their send.
C16_OneResultOneCacheWrite ==
  /\ [](\A c \in Calls :
         resCh[c] # Nil =>
           Len(resCh[c].buf) + received(c)
             = Cardinality({w \in started(c) : worker[w].st \in {"cache", "done"}}))
  /\ [][\A w \in WorkerIds :
          LET c == w[1]
              result == [addrPort |-> [addr |-> ips[c][w[2]], port |-> pingPorts[w[3]]],
                         latency |-> worker[w].latency, success |-> worker[w].success]
              entry == IF worker[w].success
                       THEN [status |-> 0, latencyMsec |-> worker[w].latency]
                       ELSE [status |-> 1, latencyMsec |-> 0]
          IN /\ (worker[w].st = "dial" /\ worker'[w].st # "dial") =>
                  worker'[w].st = "send" /\ cache' = cache /\ resCh' = resCh
             /\ (worker[w].st = "send" /\ worker'[w].st # "send") =>
                  /\ worker'[w].st = "cache"
                  /\ worker'[w].success = worker[w].success
                  /\ worker'[w].latency = worker[w].latency
                  /\ resCh'[c].buf = Append(resCh[c].buf, result)
                  /\ cache' = cache
             /\ (worker[w].st = "cache" /\ worker'[w].st # "cache") =>
                  /\ worker'[w].st = "done"
                  /\ cache' = [cache EXCEPT ![Unmap(ips[c][w[2]])] = entry]
                  /\ resCh' = resCh
             /\ worker[w].st = "done" => worker'[w].st = "done"]_vars

\* C16 witness: all the workers of a call have ended, one after a dial that
\* failed: its result with success = false lies in the sink and the cache
\* holds a failure entry for its address.
C16_Witness ==
  \E c \in Calls :
    /\ started(c) # {} /\ running(c) = {}
    /\ Len(resCh[c].buf) + received(c) = Cardinality(started(c))
    /\ \E i \in 1..Len(resCh[c].buf) :
         /\ ~resCh[c].buf[i].success
         /\ isFailure(cacheFind(Unmap(resCh[c].buf[i].addrPort.addr)))

\* The probe workers schedulePings owes call c for what it has looked up so
\* far: one per configured port for every position found absent.
owed(c) ==
  {w \in WorkerIds : /\ w[1] = c /\ w[2] <= Len(seen[c]) /\ seen[c][w[2]] = Nil
                     /\ w[3] <= Len(pingPorts)}

\* C17: schedulePings starts one probe worker for every pair of an address
\* occurrence found absent from the cache at its lookup and a configured
\* port, and none for any other address.  An iteration of its loop changes
\* nothing else: not the cache, not the sink, not a worker already started;
\* and it is never held up by the sink or by a worker.
C17_SchedulePingsFrame ==
  /\ [](\A c \in Calls :
         /\ started(c) = owed(c)
         /\ pc[c] = "scan" => ENABLED (schedulePings(c) \/ schedulePingsReturn(c)))
  /\ [][\A c \in Calls :
          (pc[c] = "scan" /\ idx'[c] = idx[c] + 1) =>
            LET new == IF cacheFind(ips[c][idx[c]]) = Nil
                       THEN {w \in WorkerIds : /\ w[1] = c /\ w[2] = idx[c]
                                               /\ w[3] <= Len(pingPorts)}
                       ELSE {}
            IN /\ cache' = cache /\ resCh' = resCh /\ pc' = pc
               /\ ret' = ret /\ after' = after
               /\ \A w \in new : worker[w].st = "none" /\ worker'[w].st = "dial"
               /\ \A w \in WorkerIds \ new : worker'[w] = worker[w]]_vars

\* C17 witness: of two addresses the first was found absent and the second
\* cached; with two ports configured exactly the two workers of the first
\* address were started, and the cache lookup of the second saw an entry.
C17_Witness ==
  \E c \in Calls :
    /\ pc[c] \in {"wait", "done"} /\ Len(ips[c]) = 2 /\ Len(pingPorts) = 2
    /\ seen[c][1] = Nil /\ seen[c][2] # Nil
    /\ started(c) = {<<c, 1, 1>>, <<c, 1, 2>>}

\* What belongs to call c alone: its locals and the state of its workers.
ownState(c) ==
  <<pc[c], ips[c], idx[c], pr[c], scheduled[c], resCh[c], res[c], ret[c], outcome[c],
    seen[c], dropped[c], [w \in {v \in WorkerIds : v[1] = c} |-> worker[w].st]>>

\* The workers of call c that have sent their result.
sent(c) == {w \in started(c) : worker[w].st \in {"cache", "done"}}

\* C18: two concurrent calls share nothing but the cache.  A step of one
\* call or of one of its workers leaves the locals, the sink and the workers
\* of the other call as they were; the sink of a call holds, together with
\* what the call has received, one result for each of its own workers that
\* has sent, each for an address that worker dials; and what a call returns
\* is nil, its own candidate from its own cache scan, or the result it
\* received, which is the result of one of its own workers.
C18_CallsIndependent ==
  /\ [](\A c \in Calls :
         /\ resCh[c] # Nil =>
              /\ Len(resCh[c].buf) + received(c) = Cardinality(sent(c))
              /\ \A i \in 1..Len(resCh[c].buf) :
                   \E w \in sent(c) : resCh[c].buf[i].addrPort = addrPortOf(w)
         /\ res[c] # Nil => \E w \in sent(c) : res[c].addrPort = addrPortOf(w)
         /\ pr[c] = bestCached(c)
         /\ pc[c] = "done" => ret[c] \in {Nil, pr[c], res[c]})
  /\ [][\A c, d \in Calls :
          (c # d /\ ownState(c)' # ownState(c)) => ownState(d)' = ownState(d)]_vars

\* C18 witness: both calls probed the same address with a worker each; the
\* first call received its worker's result and returned it, while the
\* second still waits on its own, empty sink.
C18_Witness ==
  /\ pc[1] = "done" /\ outcome[1] = "live" /\ ret[1] = res[1]
  /\ pc[2] = "wait" /\ started(2) # {} /\ resCh[2].buf = <<>> /\ dropped[2] = 0
  /\ \E w \in started(2) : res[1].addrPort = addrPortOf(w)

winnerUncached ==
  {c \in Calls : outcome[c] = "live" /\ cacheFind(Unmap(res[c].addrPort.addr)) = Nil}

\* C20: a probe worker writes the cache only after its result is in the
\* sink: the cache changes only in the step in which a worker that has sent
\* ends, and not with the send.  A live winner may so be returned before the
\* cache has an entry for its address; the workers running on, from some
\* moment the cache has an entry for the address of every live winner.
C20_SendBeforeCacheWrite ==
  /\ [][cache' # cache =>
          \E w \in WorkerIds :
            /\ worker[w].st = "cache" /\ worker'[w].st = "done"
            /\ resCh' = resCh
            /\ \A k \in DOMAIN cache :
                 cache'[k] # cache[k] => k = Unmap(ips[w[1]][w[2]])]_vars
  /\ [][\A v \in WorkerIds :
          (worker[v].st \in {"dial", "send"} /\ worker'[v].st # worker[v].st) =>
            cache' = cache]_vars
  /\ <>[](winnerUncached = {})

\* C20 witness: pingAll has returned the live winner, the cache has no entry
\* for the winner's address, and the worker that produced it is about to
\* write one.
C20_Witness ==
  \E c \in Calls :
    /\ pc[c] = "done" /\ c \in winnerUncached /\ ret[c] = res[c]
    /\ \E w \in started(c) :
         /\ worker[w].st = "cache" /\ worker[w].success
         /\ addrPortOf(w) = res[c].addrPort

====
